---- MODULE Spec2Model ----
(***************************************************************************)
(* A model of edge/atomicstore: the Store of src/atomicstore.go (a         *)
(* sync.Map, an atomic counter, an optional sync.Cond and the callbacks)   *)
(* and the batch executor of src/batch.go.                                 *)
(*                                                                         *)
(* Every goroutine is a process with a program counter.  One action is one *)
(* atomic operation on shared state (a sync.Map call, a counter call, a    *)
(* mutex or condition-variable call, a channel operation); statements that *)
(* touch only the goroutine's own locals (a callback invocation, which is  *)
(* recorded in the goroutine's own log) are folded into the shared         *)
(* operation that precedes them.                                           *)
(***************************************************************************)
EXTENDS Integers, Sequences, FiniteSets, TLC

\* ------------------------------------------------------------------ bounds
\* Calls made by each of several concurrent mutator goroutines.
MaxOps == 2
\* Calls made by a mutator goroutine that runs alone.
MaxSeqOps == 3
\* Calls (NotifyDidChange, Flush) made by the notifier that runs beside the
\* waiters.
MaxNotifierOps == 1
\* Calls made by the mutator goroutine that runs beside a batch on a
\* lockable store.
MaxLockedOps == 1
\* Jobs queued in one batch.
MaxJobs == 2

\* ------------------------------------------------------------- universes
Keys == {"a", "b"}
Vals == {"v1", "v2"}
\* Go's nil interface value.
Nil == "nil"

\* The callback fields of the Store (atomicstore.go:29-34).
SingleHooks == {"onInsert", "onUpdate", "onRemove"}
BatchHooks == {"onBatchInsert", "onBatchUpdate", "onBatchRemove"}

Threads == {<<"t", 1>>, <<"t", 2>>}
Waiters == {<<"w", 1>>, <<"w", 2>>}
\* The goroutine started at atomicstore.go:147 by the waiter's call.
HelperOf(w) == <<"h", w[2]>>
Helpers == {HelperOf(w) : w \in Waiters}
\* The goroutine started at batch.go:68 for job number i.
TaskOf(i) == <<"j", i>>
Tasks == {TaskOf(i) : i \in 1..MaxJobs}
\* The goroutine that owns the batch and calls Execute.
Executor == <<"b", 0>>
Procs == Threads \cup Waiters \cup Helpers \cup Tasks \cup {Executor}
NoProc == <<"none", 0>>

VARIABLES
    lockable,   \* s.cond != nil
    hooks,      \* per callback field of the Store: it holds a function (not nil)
    track,      \* the history variables (ret, fired, cur, prev) are kept;
                \* off where many goroutines run and no claim reads them
    m,          \* the embedded sync.Map: a function from the present keys
    count,      \* s.count, the uint64 of the atomic counter (see CounterDec)
    lock,       \* the holder of s.cond.L, or NoProc
    waitq,      \* the waiters on s.cond's notify list
    pc,         \* the position of every goroutine
    fr,         \* per goroutine: the frame of its running insert/remove
    ret,        \* per mutator: what its last public call returned
    fired,      \* per mutator: the single-operation callbacks of its call
    ops,        \* per mutator: calls it will still make
    cur,        \* per mutator: its running (or last) call, with the store
                \* as it was when the call was made (history)
    prev,       \* per mutator: the call completed before cur (history)
    visited,    \* per mutator: keys its running Flush's Range has visited
    snap,       \* per mutator: keys present ever since its Flush's Range began
    cancelled,  \* per waiter: ctx.Done() is closed
    chan,       \* per waiter: messages buffered in its `wait` channel
    wh,         \* per waiter, history of its call: heard (a Broadcast found
                \* it on the notify list), notified (a NotifyDidChange did),
                \* preCancelled (its context was cancelled when the call was
                \* made), afterNotify (a NotifyDidChange had completed then)
    everNotified, \* a NotifyDidChange call has completed (history)
    jobs,       \* b.jobs
    created,    \* *b.created
    updated,    \* *b.updated
    deleted,    \* *b.deleted
    wg,         \* the WaitGroup counter of Execute
    writing,    \* per task: the result maps it is in the middle of writing
    raced,      \* per task: its result-map write overlapped another's
    bfired,     \* the batch callbacks Execute has invoked, in order
    bm0         \* the store's mapping when Execute began (history)

storeVars == <<lockable, track, hooks, m, count, lock, waitq>>
threadVars == <<ret, fired, ops, cur, prev, visited, snap>>
waitVars == <<cancelled, chan, wh, everNotified>>
batchVars == <<jobs, created, updated, deleted, wg, writing, raced, bfired, bm0>>
vars == <<lockable, track, hooks, m, count, lock, waitq, pc, fr, ret, fired, ops, cur, prev,
          visited, snap, cancelled, chan, wh, everNotified, jobs, created,
          updated, deleted, wg, writing, raced, bfired, bm0>>

\* ------------------------------------------------- collaborators: sync.Map
EmptyMap == [k \in {} |-> Nil]
MapPut(mm, k, v) == [x \in (DOMAIN mm) \cup {k} |-> IF x = k THEN v ELSE mm[x]]
MapDel(mm, k) == [x \in (DOMAIN mm) \ {k} |-> mm[x]]
\* sync.Map.Load as used by Store.Get: (value, ok).
Get(k) == IF k \in DOMAIN m THEN [val |-> m[k], ok |-> TRUE]
          ELSE [val |-> Nil, ok |-> FALSE]
\* Store.GetKeyMap: the set of keys Range visits.
GetKeyMap == DOMAIN m

\* ------------------------------------------ collaborator: atomiccounter
\* The counter is a uint64 changed by atomic adds modulo 2^64.  The model
\* keeps the representative of its value in (-2^31, 2^31): a negative n
\* stands for 2^64 + n, the value an underflowing Dec leaves behind.
CounterInc(c) == c + 1
CounterDec(c) == c - 1
\* Store.Len
StoreLen == count

\* --------------------------------------------------------------- frames
NoFrame == [fn |-> "none", key |-> Nil, val |-> Nil, unique |-> FALSE,
            runCallbacks |-> FALSE, exists |-> FALSE, resp |-> Nil,
            from |-> "none"]
\* s.insert(key, val, options{unique, runCallbacks}) called from `from`.
InsertFrame(k, v, u, cb, from) ==
    [fn |-> "insert", key |-> k, val |-> v, unique |-> u, runCallbacks |-> cb,
     exists |-> FALSE, resp |-> Nil, from |-> from]
\* s.remove(key, options{runCallbacks}) called from `from`.
RemoveFrame(k, cb, from) ==
    [fn |-> "remove", key |-> k, val |-> Nil, unique |-> FALSE,
     runCallbacks |-> cb, exists |-> FALSE, resp |-> Nil, from |-> from]

\* A store that never takes its lock.
EntryPcUnlocked(f) == IF f.fn = "insert"
                      THEN (IF f.unique THEN "los" ELSE "get")
                      ELSE "rmget"

\* The first statement of insert/remove after the optional Lock().
BodyPc(f) == IF f.fn = "insert"
             THEN (IF f.unique THEN "los" ELSE "get")
             ELSE "rmget"
\* if s.lockable() { s.cond.L.Lock(); defer s.cond.L.Unlock() }
EntryPc(f) == IF lockable THEN "lock" ELSE BodyPc(f)
\* The deferred Unlock of insert/remove.
Unlocked(p) == IF lockable /\ lock = p THEN NoProc ELSE lock

Event(name, f) == [cb |-> name, key |-> f.key, val |-> f.resp]
\* The call of a nil function value: insert on its non-unique path and
\* remove call the callback field without testing it (atomicstore.go:73,
\* :76, :104); the unique path tests it first (atomicstore.go:59).
NilCall(name, f) == f.runCallbacks /\ ~f.unique /\ ~hooks[name]
\* Where insert/remove goes after the callback statement: on to its return,
\* or into the panic of a nil call.
AfterCallback(name, f) == IF NilCall(name, f) THEN "panic" ELSE "ret"

\* A goroutine's callback log after `name` is invoked, if callbacks run and
\* the field holds a function.
Fire(p, name, f) ==
    IF f.runCallbacks /\ hooks[name] /\ track
    THEN [fired EXCEPT ![p] = Append(@, Event(name, f))]
    ELSE fired

\* Signal in place of Broadcast: one goroutine of the notify list is woken.
SignalPc(pcf) ==
    [p \in Procs |->
        IF waitq # {} /\ p = (CHOOSE w \in waitq : TRUE) THEN "relock" ELSE pcf[p]]

\* s.cond.Broadcast(): every goroutine on the notify list becomes runnable
\* and must re-acquire the lock inside cond.Wait.
BroadcastPc(pcf) == [p \in Procs |-> IF p \in waitq THEN "relock" ELSE pcf[p]]
\* History: the waiters a Broadcast found on the notify list have heard it.
BroadcastWh == [w \in Waiters |->
                  IF w \in waitq THEN [wh[w] EXCEPT !.heard = TRUE] ELSE wh[w]]

\* ----------------------------------------------- insert and remove, steps
Mutators == Threads \cup Tasks

\* A Lock() that does not wait for the holder to unlock.
LockBarges(p) ==
    /\ pc[p] = "lock"
    /\ lock' = p
    /\ pc' = [pc EXCEPT ![p] = BodyPc(fr[p])]
    /\ UNCHANGED <<lockable, track, hooks, m, count, waitq, fr>>
    /\ UNCHANGED <<threadVars, waitVars, batchVars>>

\* atomicstore.go:50 and :94, s.cond.L.Lock()
Lock(p) ==
    /\ pc[p] = "lock"
    /\ lock = NoProc
    /\ lock' = p
    /\ pc' = [pc EXCEPT ![p] = BodyPc(fr[p])]
    /\ UNCHANGED <<lockable, track, hooks, m, count, waitq, fr>>
    /\ UNCHANGED <<threadVars, waitVars, batchVars>>

\* LoadOrStore replaced by an unconditional Store.
LoadOrStoreOverwrites(p) ==
    /\ pc[p] = "los"
    /\ LET f == fr[p]
           loaded == f.key \in DOMAIN m
       IN /\ m' = MapPut(m, f.key, f.val)
          /\ fr' = [fr EXCEPT ![p].exists = loaded, ![p].resp = f.val]
          /\ pc' = [pc EXCEPT ![p] = IF loaded THEN "ret" ELSE "inc"]
    /\ UNCHANGED <<lockable, track, hooks, count, lock, waitq>>
    /\ UNCHANGED <<threadVars, waitVars, batchVars>>

\* atomicstore.go:56-57 and :63, resp, loaded := s.LoadOrStore(key, val)
LoadOrStore(p) ==
    /\ pc[p] = "los"
    /\ LET f == fr[p]
           loaded == f.key \in DOMAIN m
           resp == IF loaded THEN m[f.key] ELSE f.val
       IN /\ m' = IF loaded THEN m ELSE MapPut(m, f.key, f.val)
          /\ fr' = [fr EXCEPT ![p].exists = loaded, ![p].resp = resp]
          /\ pc' = [pc EXCEPT ![p] = IF loaded THEN "ret" ELSE "inc"]
    /\ UNCHANGED <<lockable, track, hooks, count, lock, waitq>>
    /\ UNCHANGED <<threadVars, waitVars, batchVars>>

\* atomicstore.go:67, _, exists := s.Get(key)
InsertGet(p) ==
    /\ pc[p] = "get"
    /\ fr' = [fr EXCEPT ![p].exists = Get(fr[p].key).ok]
    /\ pc' = [pc EXCEPT ![p] = "store"]
    /\ UNCHANGED <<storeVars, threadVars, waitVars, batchVars>>

\* Insert counting every write, also the overwrite of an existing key.
InsertStoreCountsAll(p) ==
    /\ pc[p] = "store"
    /\ LET f == [fr[p] EXCEPT !.resp = fr[p].val]
       IN /\ m' = MapPut(m, f.key, f.val)
          /\ fr' = [fr EXCEPT ![p] = f]
          /\ pc' = [pc EXCEPT ![p] = "inc"]
    /\ UNCHANGED <<lockable, track, hooks, count, lock, waitq>>
    /\ UNCHANGED <<threadVars, waitVars, batchVars>>

\* atomicstore.go:68, s.Store(key, val); and, when the key existed,
\* :75-77, the update callback.
InsertStore(p) ==
    /\ pc[p] = "store"
    /\ LET f == [fr[p] EXCEPT !.resp = fr[p].val]
       IN /\ m' = MapPut(m, f.key, f.val)
          /\ fr' = [fr EXCEPT ![p] = f]
          /\ pc' = [pc EXCEPT ![p] = IF f.exists THEN AfterCallback("onUpdate", f)
                                      ELSE "inc"]
          /\ fired' = IF f.exists THEN Fire(p, "onUpdate", f) ELSE fired
    /\ UNCHANGED <<lockable, track, hooks, count, lock, waitq>>
    /\ UNCHANGED <<ret, ops, cur, prev, visited, snap, waitVars, batchVars>>

\* atomicstore.go:58-61 and :71-74, s.count.Inc() and the insert callback
InsertInc(p) ==
    /\ pc[p] = "inc"
    /\ count' = CounterInc(count)
    /\ fired' = Fire(p, "onInsert", fr[p])
    /\ pc' = [pc EXCEPT ![p] = AfterCallback("onInsert", fr[p])]
    /\ UNCHANGED <<lockable, track, hooks, m, lock, waitq, fr>>
    /\ UNCHANGED <<ret, ops, cur, prev, visited, snap, waitVars, batchVars>>

\* atomicstore.go:99 and :108, resp, ok := s.Get(key)
RemoveGet(p) ==
    /\ pc[p] = "rmget"
    /\ LET g == Get(fr[p].key)
       IN /\ fr' = [fr EXCEPT ![p].exists = g.ok, ![p].resp = g.val]
          /\ pc' = [pc EXCEPT ![p] = IF g.ok THEN "dec" ELSE "ret"]
    /\ UNCHANGED <<storeVars, threadVars, waitVars, batchVars>>

\* atomicstore.go:100, s.count.Dec()
RemoveDec(p) ==
    /\ pc[p] = "dec"
    /\ count' = CounterDec(count)
    /\ pc' = [pc EXCEPT ![p] = "del"]
    /\ UNCHANGED <<lockable, track, hooks, m, lock, waitq, fr>>
    /\ UNCHANGED <<threadVars, waitVars, batchVars>>

\* The keys that have been present ever since each running Range began,
\* once key k is deleted.
Unsnap(k) == [t \in Threads |-> snap[t] \ {k}]

\* atomicstore.go:101-106, s.Delete(key) and the remove callback
RemoveDelete(p) ==
    /\ pc[p] = "del"
    /\ m' = MapDel(m, fr[p].key)
    /\ snap' = Unsnap(fr[p].key)
    /\ fired' = Fire(p, "onRemove", fr[p])
    /\ pc' = [pc EXCEPT ![p] = AfterCallback("onRemove", fr[p])]
    /\ UNCHANGED <<lockable, track, hooks, count, lock, waitq, fr>>
    /\ UNCHANGED <<ret, ops, cur, prev, visited, waitVars, batchVars>>

\* atomicstore.go:51 and :95, the deferred Unlock runs while the panic of a
\* nil callback call (atomicstore.go:73, :76, :104) leaves insert/remove;
\* the call, and the Flush around it, do not return.
PanicUnwind(p) ==
    /\ pc[p] = "panic"
    /\ lock' = Unlocked(p)
    /\ pc' = [pc EXCEPT ![p] = "panicked"]
    /\ fr' = [fr EXCEPT ![p] = NoFrame]
    /\ UNCHANGED <<lockable, track, hooks, m, count, waitq>>
    /\ UNCHANGED <<threadVars, waitVars, batchVars>>

\* ------------------------------------------------ the public Store calls
NoRet == [val |-> Nil, ok |-> FALSE]
NoCall == [op |-> "none", key |-> Nil, val |-> Nil, m0 |-> EmptyMap, count0 |-> 0]
NewCall(op, k, v) ==
    IF track THEN [op |-> op, key |-> k, val |-> v, m0 |-> m, count0 |-> count]
    ELSE [NoCall EXCEPT !.op = op]
\* The bookkeeping every public call starts with.
Begin(t, c) ==
    /\ pc[t] = "idle"
    /\ ops[t] > 0
    /\ prev' = IF track THEN [prev EXCEPT ![t] = [call |-> cur[t], ret |-> ret[t]]]
                ELSE prev
    /\ cur' = [cur EXCEPT ![t] = c]
    /\ fired' = [fired EXCEPT ![t] = <<>>]

\* atomicstore.go:83-85, Store.Insert
CallInsert(t, k, v) ==
    /\ Begin(t, NewCall("Insert", k, v))
    /\ LET f == InsertFrame(k, v, FALSE, TRUE, "call")
       IN /\ fr' = [fr EXCEPT ![t] = f]
          /\ pc' = [pc EXCEPT ![t] = EntryPc(f)]
    /\ UNCHANGED <<storeVars, ret, ops, visited, snap, waitVars, batchVars>>

\* atomicstore.go:88-90, Store.InsertUnique
CallInsertUnique(t, k, v) ==
    /\ Begin(t, NewCall("InsertUnique", k, v))
    /\ LET f == InsertFrame(k, v, TRUE, TRUE, "call")
       IN /\ fr' = [fr EXCEPT ![t] = f]
          /\ pc' = [pc EXCEPT ![t] = EntryPc(f)]
    /\ UNCHANGED <<storeVars, ret, ops, visited, snap, waitVars, batchVars>>

\* atomicstore.go:112-113, Store.Remove
CallRemove(t, k) ==
    /\ Begin(t, NewCall("Remove", k, Nil))
    /\ LET f == RemoveFrame(k, TRUE, "call")
       IN /\ fr' = [fr EXCEPT ![t] = f]
          /\ pc' = [pc EXCEPT ![t] = EntryPc(f)]
    /\ UNCHANGED <<storeVars, ret, ops, visited, snap, waitVars, batchVars>>

\* What Insert/InsertUnique (the pair of insert) and Remove (success alone)
\* hand back to the caller.
Returned(f) == IF f.fn = "insert" THEN [val |-> f.resp, ok |-> f.exists]
               ELSE [val |-> Nil, ok |-> f.exists]

\* The return of insert/remove into Insert, InsertUnique or Remove
\* (atomicstore.go:63, :79, :106, :108, :114) with its deferred Unlock.
ThreadReturn(t) ==
    /\ pc[t] = "ret"
    /\ fr[t].from = "call"
    /\ lock' = Unlocked(t)
    /\ ret' = IF track THEN [ret EXCEPT ![t] = Returned(fr[t])] ELSE ret
    /\ ops' = [ops EXCEPT ![t] = @ - 1]
    /\ pc' = [pc EXCEPT ![t] = "idle"]
    /\ fr' = [fr EXCEPT ![t] = NoFrame]
    /\ UNCHANGED <<lockable, track, hooks, m, count, waitq>>
    /\ UNCHANGED <<fired, cur, prev, visited, snap, waitVars, batchVars>>

\* atomicstore.go:166-167, Store.Flush begins s.Range
CallFlush(t) ==
    /\ Begin(t, NewCall("Flush", Nil, Nil))
    /\ visited' = [visited EXCEPT ![t] = {}]
    /\ snap' = [snap EXCEPT ![t] = DOMAIN m]
    /\ pc' = [pc EXCEPT ![t] = "flush"]
    /\ UNCHANGED <<storeVars, fr, ret, ops, waitVars, batchVars>>

\* atomicstore.go:167-168, Range hands the callback a key it has not visited
\* and the callback calls s.Remove(k)
FlushVisit(t) ==
    /\ pc[t] = "flush"
    /\ \E k \in (DOMAIN m) \ visited[t] :
         LET f == RemoveFrame(k, TRUE, "flush")
         IN /\ visited' = [visited EXCEPT ![t] = @ \cup {k}]
            /\ fr' = [fr EXCEPT ![t] = f]
            /\ pc' = [pc EXCEPT ![t] = EntryPc(f)]
    /\ UNCHANGED <<storeVars, ret, fired, ops, cur, prev, snap, waitVars, batchVars>>

\* atomicstore.go:168-169, s.Remove returns into the Range callback
FlushReturn(t) ==
    /\ pc[t] = "ret"
    /\ fr[t].from = "flush"
    /\ lock' = Unlocked(t)
    /\ pc' = [pc EXCEPT ![t] = "flush"]
    /\ fr' = [fr EXCEPT ![t] = NoFrame]
    /\ UNCHANGED <<lockable, track, hooks, m, count, waitq>>
    /\ UNCHANGED <<threadVars, waitVars, batchVars>>

\* A Range whose callback stops it after the first key.
RangeStopsEarly(t) == visited[t] # {} \/ DOMAIN m = {}

\* Range is over: every key that has been present ever since it began has
\* been visited.  A key that was stored or deleted during the Range may or
\* may not have been visited (sync.Map.Range "may reflect any mapping for
\* that key from any point during the Range call").
RangeDone(t) == (snap[t] \ visited[t]) = {}

\* atomicstore.go:170-174, Range ends, then s.cond.Broadcast() if lockable
FlushEnd(t) ==
    /\ pc[t] = "flush"
    /\ RangeDone(t)
    /\ LET pcf == [pc EXCEPT ![t] = "idle"]
       IN IF lockable
          THEN /\ pc' = BroadcastPc(pcf)
               /\ waitq' = {}
               /\ wh' = BroadcastWh
          ELSE /\ pc' = pcf
               /\ UNCHANGED <<waitq, wh>>
    /\ ret' = IF track THEN [ret EXCEPT ![t] = NoRet] ELSE ret
    /\ ops' = [ops EXCEPT ![t] = @ - 1]
    /\ UNCHANGED <<lockable, track, hooks, m, count, lock, fr>>
    /\ UNCHANGED <<fired, cur, prev, visited, snap, cancelled, chan, everNotified, batchVars>>

\* atomicstore.go:133-137, Store.NotifyDidChange
NotifyDidChange(t) ==
    /\ Begin(t, NewCall("NotifyDidChange", Nil, Nil))
    /\ IF lockable
       THEN /\ pc' = BroadcastPc(pc)
            /\ waitq' = {}
            /\ wh' = [w \in Waiters |->
                        IF w \in waitq
                        THEN [BroadcastWh[w] EXCEPT !.notified = TRUE]
                        ELSE BroadcastWh[w]]
       ELSE UNCHANGED <<pc, waitq, wh>>
    /\ everNotified' = TRUE
    /\ ret' = IF track THEN [ret EXCEPT ![t] = NoRet] ELSE ret
    /\ ops' = [ops EXCEPT ![t] = @ - 1]
    /\ UNCHANGED <<lockable, track, hooks, m, count, lock, fr>>
    /\ UNCHANGED <<visited, snap, cancelled, chan, batchVars>>

\* -------------------------------------------------- callback registration
\* s.onX = f, where f is a function (TRUE) or nil (FALSE): a bare
\* assignment, made by any goroutine at any time, with no lock.  A running
\* operation that reads the field sees the value of before or of after the
\* assignment, as its step comes before or after this one.
SetHandler(name, f) ==
    /\ hooks' = [hooks EXCEPT ![name] = f]
    /\ UNCHANGED <<lockable, track, m, count, lock, waitq, pc, fr>>
    /\ UNCHANGED <<threadVars, waitVars, batchVars>>

\* atomicstore.go:177-179
OnInsertHandler(f) == SetHandler("onInsert", f)
\* atomicstore.go:182-184
OnUpdateHandler(f) == SetHandler("onUpdate", f)
\* atomicstore.go:187-189
OnRemoveHandler(f) == SetHandler("onRemove", f)
\* atomicstore.go:192-194
OnBatchInsertHandler(f) == SetHandler("onBatchInsert", f)
\* atomicstore.go:197-199
OnBatchUpdateHandler(f) == SetHandler("onBatchUpdate", f)
\* atomicstore.go:202-204
OnBatchRemoveHandler(f) == SetHandler("onBatchRemove", f)

\* ------------------------- the sync.Map methods promoted by the embedding
\* atomicstore.go:35: Store embeds sync.Map, so its methods are callable on
\* a *Store.  They change the mapping without the lock, the counter or a
\* callback.  Store, LoadOrStore and Delete are modelled; the mapping changes
\* as under Store by Swap and a succeeding CompareAndSwap, and as under
\* Delete by LoadAndDelete, a succeeding CompareAndDelete and (key by key)
\* Clear.

\* s.Store(k, v)
MapStore(t, k, v) ==
    /\ Begin(t, NewCall("Store", k, v))
    /\ m' = MapPut(m, k, v)
    /\ ret' = IF track THEN [ret EXCEPT ![t] = NoRet] ELSE ret
    /\ ops' = [ops EXCEPT ![t] = @ - 1]
    /\ UNCHANGED <<lockable, track, hooks, count, lock, waitq, pc, fr>>
    /\ UNCHANGED <<visited, snap, waitVars, batchVars>>

\* s.LoadOrStore(k, v), returning (actual, loaded)
MapLoadOrStore(t, k, v) ==
    /\ Begin(t, NewCall("LoadOrStore", k, v))
    /\ m' = IF k \in DOMAIN m THEN m ELSE MapPut(m, k, v)
    /\ ret' = IF track
              THEN [ret EXCEPT ![t] = [val |-> IF k \in DOMAIN m THEN m[k] ELSE v,
                                       ok |-> k \in DOMAIN m]]
              ELSE ret
    /\ ops' = [ops EXCEPT ![t] = @ - 1]
    /\ UNCHANGED <<lockable, track, hooks, count, lock, waitq, pc, fr>>
    /\ UNCHANGED <<visited, snap, waitVars, batchVars>>

\* s.Delete(k)
MapDelete(t, k) ==
    /\ Begin(t, NewCall("Delete", k, Nil))
    /\ m' = MapDel(m, k)
    /\ snap' = Unsnap(k)
    /\ ret' = IF track THEN [ret EXCEPT ![t] = NoRet] ELSE ret
    /\ ops' = [ops EXCEPT ![t] = @ - 1]
    /\ UNCHANGED <<lockable, track, hooks, count, lock, waitq, pc, fr>>
    /\ UNCHANGED <<visited, waitVars, batchVars>>

\* ----------------------------------------------------- WaitForDataChange
\* The capacity of the channel made at atomicstore.go:141.
WaitChanCap == 1

\* atomicstore.go:141-157: the channel is made, a non-lockable store returns
\* at once, otherwise the helper goroutine is started.
WaitStart(w) ==
    /\ pc[w] = "start"
    /\ chan' = [chan EXCEPT ![w] = 0]
    /\ wh' = [wh EXCEPT ![w] = [heard |-> FALSE, notified |-> FALSE,
                                preCancelled |-> cancelled[w],
                                afterNotify |-> everNotified]]
    /\ pc' = IF lockable
             THEN [pc EXCEPT ![w] = "wlock", ![HelperOf(w)] = "select"]
             ELSE [pc EXCEPT ![w] = "returned"]
    /\ UNCHANGED <<storeVars, fr, threadVars, cancelled, everNotified, batchVars>>

\* atomicstore.go:159, s.cond.L.Lock()
WaitLock(w) ==
    /\ pc[w] = "wlock"
    /\ lock = NoProc
    /\ lock' = w
    /\ pc' = [pc EXCEPT ![w] = "wwait"]
    /\ UNCHANGED <<lockable, track, hooks, m, count, waitq, fr>>
    /\ UNCHANGED <<threadVars, waitVars, batchVars>>

\* A condition variable that remembers a broadcast made before the wait.
CondWaitBuffered(w) ==
    /\ pc[w] = "wwait"
    /\ IF everNotified
       THEN /\ pc' = [pc EXCEPT ![w] = "send"]
            /\ UNCHANGED <<waitq, lock>>
       ELSE /\ waitq' = waitq \cup {w}
            /\ lock' = NoProc
            /\ pc' = [pc EXCEPT ![w] = "blocked"]
    /\ UNCHANGED <<lockable, track, hooks, m, count, fr>>
    /\ UNCHANGED <<threadVars, waitVars, batchVars>>

\* atomicstore.go:160, s.cond.Wait(): the caller joins the notify list and
\* unlocks; it stays blocked until a Broadcast takes it off the list.
CondWait(w) ==
    /\ pc[w] = "wwait"
    /\ waitq' = waitq \cup {w}
    /\ lock' = NoProc
    /\ pc' = [pc EXCEPT ![w] = "blocked"]
    /\ UNCHANGED <<lockable, track, hooks, m, count, fr>>
    /\ UNCHANGED <<threadVars, waitVars, batchVars>>

\* atomicstore.go:160, the woken caller re-locks before Wait returns
WaitRelock(w) ==
    /\ pc[w] = "relock"
    /\ lock = NoProc
    /\ lock' = w
    /\ pc' = [pc EXCEPT ![w] = "send"]
    /\ UNCHANGED <<lockable, track, hooks, m, count, waitq, fr>>
    /\ UNCHANGED <<threadVars, waitVars, batchVars>>

\* A caller that returns without telling its helper.
WaitSendSkipped(w) ==
    /\ pc[w] = "send"
    /\ pc' = [pc EXCEPT ![w] = "wunlock"]
    /\ UNCHANGED <<storeVars, fr, threadVars, waitVars, batchVars>>

\* atomicstore.go:161, wait <- true (blocks while the buffer is full)
WaitSend(w) ==
    /\ pc[w] = "send"
    /\ chan[w] < WaitChanCap
    /\ chan' = [chan EXCEPT ![w] = @ + 1]
    /\ pc' = [pc EXCEPT ![w] = "wunlock"]
    /\ UNCHANGED <<storeVars, fr, threadVars, cancelled, wh, everNotified, batchVars>>

\* atomicstore.go:162-163, s.cond.L.Unlock() and return
WaitUnlock(w) ==
    /\ pc[w] = "wunlock"
    /\ lock' = NoProc
    /\ pc' = [pc EXCEPT ![w] = "returned"]
    /\ UNCHANGED <<lockable, track, hooks, m, count, waitq, fr>>
    /\ UNCHANGED <<threadVars, waitVars, batchVars>>

\* atomicstore.go:148-149, the helper's select takes case <-ctx.Done()
HelperCancelled(w) ==
    /\ pc[HelperOf(w)] = "select"
    /\ cancelled[w]
    /\ pc' = [pc EXCEPT ![HelperOf(w)] = "hlock"]
    /\ UNCHANGED <<storeVars, fr, threadVars, waitVars, batchVars>>

\* atomicstore.go:154-155, the helper's select takes case <-wait
HelperSignalled(w) ==
    /\ pc[HelperOf(w)] = "select"
    /\ chan[w] > 0
    /\ chan' = [chan EXCEPT ![w] = @ - 1]
    /\ pc' = [pc EXCEPT ![HelperOf(w)] = "hdone"]
    /\ UNCHANGED <<storeVars, fr, threadVars, cancelled, wh, everNotified, batchVars>>

\* atomicstore.go:150, s.cond.L.Lock()
HelperLock(w) ==
    /\ pc[HelperOf(w)] = "hlock"
    /\ lock = NoProc
    /\ lock' = HelperOf(w)
    /\ pc' = [pc EXCEPT ![HelperOf(w)] = "hbcast"]
    /\ UNCHANGED <<lockable, track, hooks, m, count, waitq, fr>>
    /\ UNCHANGED <<threadVars, waitVars, batchVars>>

\* A targeted wake: the helper wakes its own caller only.
HelperBroadcastTargeted(w) ==
    /\ pc[HelperOf(w)] = "hbcast"
    /\ pc' = [pc EXCEPT ![HelperOf(w)] = "hunlock",
                        ![w] = IF w \in waitq THEN "relock" ELSE @]
    /\ waitq' = waitq \ {w}
    /\ wh' = [wh EXCEPT ![w].heard = @ \/ (w \in waitq)]
    /\ UNCHANGED <<lockable, track, hooks, m, count, lock, fr>>
    /\ UNCHANGED <<threadVars, cancelled, chan, everNotified, batchVars>>

\* atomicstore.go:151, s.cond.Broadcast()
HelperBroadcast(w) ==
    /\ pc[HelperOf(w)] = "hbcast"
    /\ pc' = BroadcastPc([pc EXCEPT ![HelperOf(w)] = "hunlock"])
    /\ waitq' = {}
    /\ wh' = BroadcastWh
    /\ UNCHANGED <<lockable, track, hooks, m, count, lock, fr>>
    /\ UNCHANGED <<threadVars, cancelled, chan, everNotified, batchVars>>

\* atomicstore.go:152-153, s.cond.L.Unlock() and return
HelperUnlock(w) ==
    /\ pc[HelperOf(w)] = "hunlock"
    /\ lock' = NoProc
    /\ pc' = [pc EXCEPT ![HelperOf(w)] = "hdone"]
    /\ UNCHANGED <<lockable, track, hooks, m, count, waitq, fr>>
    /\ UNCHANGED <<threadVars, waitVars, batchVars>>

\* The owner of the context cancels it (before or during the call).
Cancel(w) ==
    /\ pc[w] # "off"
    /\ pc[HelperOf(w)] # "hdone"
    /\ ~cancelled[w]
    /\ cancelled' = [cancelled EXCEPT ![w] = TRUE]
    /\ UNCHANGED <<storeVars, pc, fr, threadVars, chan, wh, everNotified, batchVars>>

\* ------------------------------------------------------------- the batch
Job(method, k, v) == [method |-> method, key |-> k, value |-> v]

\* batch.go:32-40, batch.Insert
BatchInsert(k, v) ==
    /\ pc[Executor] = "queue"
    /\ Len(jobs) < MaxJobs
    /\ jobs' = Append(jobs, Job("insert", k, v))
    /\ UNCHANGED <<storeVars, pc, fr, threadVars, waitVars>>
    /\ UNCHANGED <<created, updated, deleted, wg, writing, raced, bfired, bm0>>

\* batch.go:43-51, batch.InsertUnique
BatchInsertUnique(k, v) ==
    /\ pc[Executor] = "queue"
    /\ Len(jobs) < MaxJobs
    /\ jobs' = Append(jobs, Job("insertUnique", k, v))
    /\ UNCHANGED <<storeVars, pc, fr, threadVars, waitVars>>
    /\ UNCHANGED <<created, updated, deleted, wg, writing, raced, bfired, bm0>>

\* batch.go:54-61, batch.Remove
BatchRemove(k) ==
    /\ pc[Executor] = "queue"
    /\ Len(jobs) < MaxJobs
    /\ jobs' = Append(jobs, Job("remove", k, Nil))
    /\ UNCHANGED <<storeVars, pc, fr, threadVars, waitVars>>
    /\ UNCHANGED <<created, updated, deleted, wg, writing, raced, bfired, bm0>>

\* A batch that goes through the public calls, callbacks included.
JobFrameWithCallbacks(j) ==
    IF j.method = "remove"
    THEN RemoveFrame(j.key, TRUE, "batch")
    ELSE InsertFrame(j.key, j.value, j.method = "insertUnique", TRUE, "batch")

\* batch.go:87-94 and :102-103, the store call b.do makes for a job
JobFrame(j) ==
    IF j.method = "remove"
    THEN RemoveFrame(j.key, FALSE, "batch")
    ELSE InsertFrame(j.key, j.value, j.method = "insertUnique", FALSE, "batch")

\* batch.go:64-69, Execute starts one goroutine per job; each goroutine
\* enters its store call.
ExecuteSpawn ==
    /\ pc[Executor] = "queue"
    /\ wg' = Len(jobs)
    /\ bm0' = m
    /\ fr' = [p \in Procs |->
                IF \E i \in 1..Len(jobs) : p = TaskOf(i)
                THEN JobFrame(jobs[p[2]]) ELSE fr[p]]
    /\ pc' = [p \in Procs |->
                IF p = Executor THEN "wait"
                ELSE IF \E i \in 1..Len(jobs) : p = TaskOf(i)
                THEN EntryPc(JobFrame(jobs[p[2]])) ELSE pc[p]]
    /\ UNCHANGED <<storeVars, threadVars, waitVars>>
    /\ UNCHANGED <<jobs, created, updated, deleted, writing, raced, bfired>>

\* A classification that lost its `else`: a plain insert is always reported
\* as an update.
ClassifyNoElse(f) ==
    IF f.fn = "insert"
    THEN (IF ~f.exists THEN {"created"} ELSE {})
         \cup (IF ~f.unique THEN {"updated"} ELSE {})
    ELSE (IF f.exists THEN {"deleted"} ELSE {})

\* batch.go:96-105, the result maps a finished store call is written to
Classify(f) ==
    IF f.fn = "insert"
    THEN (IF ~f.exists THEN {"created"}
          ELSE IF ~f.unique THEN {"updated"}
          ELSE {})
    ELSE (IF f.exists THEN {"deleted"} ELSE {})

\* The tasks whose write of a result map is under way on a map of `maps`.
Overlapping(j, maps) == {o \in Tasks \ {j} : writing[o] \cap maps # {}}

\* atomicstore.go:51 and :95, on a lockable store the deferred Unlock runs
\* as insert/remove returns into b.do (batch.go:91, :103)
TaskUnlock(j) ==
    /\ pc[j] = "ret"
    /\ fr[j].from = "batch"
    /\ lockable
    /\ lock' = Unlocked(j)
    /\ pc' = [pc EXCEPT ![j] = "back"]
    /\ UNCHANGED <<lockable, track, hooks, m, count, waitq, fr>>
    /\ UNCHANGED <<threadVars, waitVars, batchVars>>

\* Where a job task is when its store call has returned into b.do.
BackPc == IF lockable THEN "back" ELSE "ret"

\* batch.go:96-105, back in b.do with the store lock released: a job with
\* nothing to record ends (batch.go:86, wg.Done()); otherwise the map
\* assignment of batch.go:98, :100 or :104 begins.  Nothing orders it with
\* the assignments of the other tasks: two assignments to one map that
\* overlap are a data race.
TaskReturn(j) ==
    /\ pc[j] = BackPc
    /\ fr[j].from = "batch"
    /\ UNCHANGED lock
    /\ LET maps == Classify(fr[j])
       IN IF maps = {}
          THEN /\ pc' = [pc EXCEPT ![j] = "done"]
               /\ fr' = [fr EXCEPT ![j] = NoFrame]
               /\ wg' = wg - 1
               /\ UNCHANGED <<writing, raced>>
          ELSE /\ pc' = [pc EXCEPT ![j] = "recording"]
               /\ writing' = [writing EXCEPT ![j] = maps]
               /\ raced' = [o \in Tasks |->
                              \/ raced[o]
                              \/ (o = j /\ Overlapping(j, maps) # {})
                              \/ o \in Overlapping(j, maps)]
               /\ UNCHANGED <<fr, wg>>
    /\ UNCHANGED <<lockable, track, hooks, m, count, waitq>>
    /\ UNCHANGED <<threadVars, waitVars>>
    /\ UNCHANGED <<jobs, created, updated, deleted, bfired, bm0>>

\* A result map after task j's assignment took effect.
Recorded(name, kv, j) ==
    IF name \in writing[j] THEN MapPut(kv, fr[j].key, fr[j].resp) ELSE kv

\* The assignment takes effect and the task ends (batch.go:86, wg.Done()).
WriteLands(j) ==
    /\ created' = Recorded("created", created, j)
    /\ updated' = Recorded("updated", updated, j)
    /\ deleted' = Recorded("deleted", deleted, j)
    /\ writing' = [writing EXCEPT ![j] = {}]
    /\ raced' = [raced EXCEPT ![j] = FALSE]
    /\ pc' = [pc EXCEPT ![j] = "done"]
    /\ fr' = [fr EXCEPT ![j] = NoFrame]
    /\ wg' = wg - 1
    /\ UNCHANGED <<storeVars, threadVars, waitVars, jobs, bfired, bm0>>

\* The racing assignment is overwritten by the other task's.
WriteLost(j) ==
    /\ writing' = [writing EXCEPT ![j] = {}]
    /\ raced' = [raced EXCEPT ![j] = FALSE]
    /\ pc' = [pc EXCEPT ![j] = "done"]
    /\ fr' = [fr EXCEPT ![j] = NoFrame]
    /\ wg' = wg - 1
    /\ UNCHANGED <<storeVars, threadVars, waitVars>>
    /\ UNCHANGED <<jobs, created, updated, deleted, bfired, bm0>>

\* The runtime notices the race ("fatal error: concurrent map writes"):
\* the process ends, with every goroutine in it.
WriteCrashes(j) ==
    /\ pc' = [p \in Procs |-> "dead"]
    /\ UNCHANGED <<storeVars, fr, threadVars, waitVars, batchVars>>

\* batch.go:98, :100, :104, the map assignment ends.  An assignment that
\* raced has any of the outcomes a Go build gives a racing map write.
TaskWriteEnd(j) ==
    /\ pc[j] = "recording"
    /\ \/ WriteLands(j)
       \/ raced[j] /\ WriteLost(j)
       \/ raced[j] /\ WriteCrashes(j)

\* KV.Len, the number of entries of a result map.
KVLen(kv) == Cardinality(DOMAIN kv)

\* batch.go:70, wg.Wait() has returned
Joined == wg = 0

\* batch.go:70, Execute passes the barrier and comes to the first test
ExecuteJoin ==
    /\ pc[Executor] = "wait"
    /\ Joined
    /\ pc' = [pc EXCEPT ![Executor] = "testInsert"]
    /\ UNCHANGED <<storeVars, fr, threadVars, waitVars, batchVars>>

\* batch.go:72-82, Execute's position at the test and at the call of each
\* batch callback, and where it goes after that callback
TestPc == [onBatchInsert |-> "testInsert", onBatchUpdate |-> "testUpdate",
           onBatchRemove |-> "testRemove"]
CallPc == [onBatchInsert |-> "callInsert", onBatchUpdate |-> "callUpdate",
           onBatchRemove |-> "callRemove"]
AfterPc == [onBatchInsert |-> "testUpdate", onBatchUpdate |-> "testRemove",
            onBatchRemove |-> "done"]
\* the result map each batch callback is invoked with
ResultOf(name) ==
    CASE name = "onBatchInsert" -> created
      [] name = "onBatchUpdate" -> updated
      [] OTHER -> deleted

\* batch.go:72, :76, :80, the test `kv.Len() > 0 && field != nil`: it reads
\* the callback field once and either enters the if or passes it by
ExecuteTest(name) ==
    /\ pc[Executor] = TestPc[name]
    /\ pc' = [pc EXCEPT ![Executor] =
                 IF KVLen(ResultOf(name)) > 0 /\ hooks[name]
                 THEN CallPc[name] ELSE AfterPc[name]]
    /\ UNCHANGED <<storeVars, fr, threadVars, waitVars, batchVars>>

\* batch.go:73, :77, :81, the call `field(kv)`: it reads the callback field
\* again; a function is invoked with the result map, and a field that was
\* set to nil since the test makes the call panic, which ends Execute
ExecuteCall(name) ==
    /\ pc[Executor] = CallPc[name]
    /\ IF hooks[name]
       THEN /\ bfired' = Append(bfired, [cb |-> name, kv |-> ResultOf(name)])
            /\ pc' = [pc EXCEPT ![Executor] = AfterPc[name]]
       ELSE /\ bfired' = bfired
            /\ pc' = [pc EXCEPT ![Executor] = "panicked"]
    /\ UNCHANGED <<storeVars, fr, threadVars, waitVars>>
    /\ UNCHANGED <<jobs, created, updated, deleted, wg, writing, raced, bm0>>

\* ------------------------------------------------------- initial states
NoWh == [heard |-> FALSE, notified |-> FALSE, preCancelled |-> FALSE,
         afterNotify |-> FALSE]

\* New(lockable) with the goroutines of `active` about to run, each mutator
\* making n calls; the store holds mm, which a sequence of Insert calls
\* leaves behind.
InitWith(lk, mm, active, tr, n) ==
    /\ lockable = lk
    /\ track = tr
    /\ hooks = [h \in SingleHooks \cup BatchHooks |-> TRUE]
    /\ m = mm
    /\ count = Cardinality(DOMAIN mm)
    /\ lock = NoProc
    /\ waitq = {}
    /\ pc = [p \in Procs |->
               IF p \notin active THEN "off"
               ELSE IF p \in Threads THEN "idle"
               ELSE IF p = Executor THEN "queue"
               ELSE IF p \in Waiters THEN "start"
               ELSE "unborn"]
    /\ fr = [p \in Procs |-> NoFrame]
    /\ ret = [t \in Threads |-> NoRet]
    /\ fired = [p \in Mutators |-> <<>>]
    /\ ops = [t \in Threads |-> n]
    /\ cur = [t \in Threads |-> NoCall]
    /\ prev = [t \in Threads |-> [call |-> NoCall, ret |-> NoRet]]
    /\ visited = [t \in Threads |-> {}]
    /\ snap = [t \in Threads |-> {}]
    /\ cancelled = [w \in Waiters |-> FALSE]
    /\ chan = [w \in Waiters |-> 0]
    /\ wh = [w \in Waiters |-> NoWh]
    /\ everNotified = FALSE
    /\ jobs = <<>>
    /\ created = EmptyMap
    /\ updated = EmptyMap
    /\ deleted = EmptyMap
    /\ wg = 0
    /\ writing = [j \in Tasks |-> {}]
    /\ raced = [j \in Tasks |-> FALSE]
    /\ bfired = <<>>
    /\ bm0 = EmptyMap

\* The mappings that calls Insert(k, "v1") leave behind.
Stores == UNION {[K -> {"v1"}] : K \in SUBSET Keys}

\* --------------------------------------------- one goroutine, any store
T1 == <<"t", 1>>
InitSeq == \E lk \in BOOLEAN : InitWith(lk, EmptyMap, {T1}, TRUE, MaxSeqOps)

NextSeq ==
    \/ \E k \in Keys, v \in Vals : CallInsert(T1, k, v)
    \/ \E k \in Keys, v \in Vals : CallInsertUnique(T1, k, v)
    \/ \E k \in Keys : CallRemove(T1, k)
    \/ CallFlush(T1)
    \/ FlushVisit(T1)
    \/ FlushReturn(T1)
    \/ FlushEnd(T1)
    \/ Lock(T1)
    \/ LoadOrStore(T1)
    \/ InsertGet(T1)
    \/ InsertStore(T1)
    \/ InsertInc(T1)
    \/ RemoveGet(T1)
    \/ RemoveDec(T1)
    \/ RemoveDelete(T1)
    \/ ThreadReturn(T1)
    \/ PanicUnwind(T1)
    \/ \E f \in BOOLEAN : pc[T1] = "idle" /\ OnInsertHandler(f)
    \/ \E f \in BOOLEAN : pc[T1] = "idle" /\ OnUpdateHandler(f)
    \/ \E f \in BOOLEAN : pc[T1] = "idle" /\ OnRemoveHandler(f)

SpecSeq == InitSeq /\ [][NextSeq]_vars

\* ------- one goroutine that also calls the promoted sync.Map methods
\* (in both, the goroutine sets the single-operation callbacks between its
\* calls)
NextRaw ==
    \/ NextSeq
    \/ \E k \in Keys, v \in Vals : MapStore(T1, k, v)
    \/ \E k \in Keys, v \in Vals : MapLoadOrStore(T1, k, v)
    \/ \E k \in Keys : MapDelete(T1, k)

SpecRaw == InitSeq /\ [][NextRaw]_vars

\* -------------------- waiters, their helpers and one notifier, lockable
\* The store holds one key, left by an earlier Insert("a", "v1").
InitWait == InitWith(TRUE, MapPut(EmptyMap, "a", "v1"), {T1} \cup Waiters, FALSE,
                     MaxNotifierOps)

WaiterStep(w) ==
    \/ WaitLock(w)
    \/ CondWait(w)
    \/ WaitRelock(w)
    \/ WaitSend(w)
    \/ WaitUnlock(w)
HelperStep(w) ==
    \/ HelperCancelled(w)
    \/ HelperSignalled(w)
    \/ HelperLock(w)
    \/ HelperBroadcast(w)
    \/ HelperUnlock(w)
\* The steps inside a Flush that its caller has begun.
FlushStep(t) ==
    \/ FlushVisit(t)
    \/ Lock(t)
    \/ RemoveGet(t)
    \/ RemoveDec(t)
    \/ RemoveDelete(t)
    \/ FlushReturn(t)
    \/ FlushEnd(t)

NextWait ==
    \/ \E w \in Waiters : WaitStart(w)
    \/ \E w \in Waiters : WaiterStep(w)
    \/ \E w \in Waiters : HelperStep(w)
    \/ \E w \in Waiters : Cancel(w)
    \/ NotifyDidChange(T1)
    \/ CallFlush(T1)
    \/ FlushStep(T1)

SpecWait == InitWait /\ [][NextWait]_vars

\* The Go scheduler runs every runnable goroutine, and sync.Mutex hands the
\* lock to a goroutine that keeps waiting for it: every step inside a call
\* that has begun is taken if it stays possible.  When a call is made, and
\* whether a context is cancelled, is up to the callers.
FairSpecWait ==
    /\ SpecWait
    /\ \A w \in Waiters : WF_vars(WaiterStep(w)) /\ WF_vars(HelperStep(w))
    /\ WF_vars(FlushStep(T1))

\* ------------------------ one Flush beside the waiters, any kind of store
\* The remove callback is set, to a function or to nil, at any time.
\* The mappings left by no call, by Insert("a", "v1"), and by Insert("a",
\* "v1") and Insert("b", "v2").
FlushStores == {EmptyMap, MapPut(EmptyMap, "a", "v1"),
                MapPut(MapPut(EmptyMap, "a", "v1"), "b", "v2")}
InitFlush == \E lk \in BOOLEAN, mm \in FlushStores :
                 InitWith(lk, mm, {T1} \cup Waiters, TRUE, MaxNotifierOps)

NextFlush ==
    \/ \E w \in Waiters : WaitStart(w)
    \/ \E w \in Waiters : WaiterStep(w)
    \/ \E w \in Waiters : HelperStep(w)
    \/ \E w \in Waiters : Cancel(w)
    \/ \E f \in BOOLEAN : OnRemoveHandler(f)
    \/ CallFlush(T1)
    \/ FlushStep(T1)
    \/ PanicUnwind(T1)

SpecFlush == InitFlush /\ [][NextFlush]_vars

\* ------------------------------------------- one batch, any store
InitBatch == \E lk \in BOOLEAN, mm \in Stores :
                 InitWith(lk, mm, {Executor}, TRUE, 0)

NextBatch ==
    \/ \E k \in Keys, v \in Vals : BatchInsert(k, v)
    \/ \E k \in Keys, v \in Vals : BatchInsertUnique(k, v)
    \/ \E k \in Keys : BatchRemove(k)
    \/ ExecuteSpawn
    \/ \E j \in Tasks : Lock(j)
    \/ \E j \in Tasks : LoadOrStore(j)
    \/ \E j \in Tasks : InsertGet(j)
    \/ \E j \in Tasks : InsertStore(j)
    \/ \E j \in Tasks : InsertInc(j)
    \/ \E j \in Tasks : RemoveGet(j)
    \/ \E j \in Tasks : RemoveDec(j)
    \/ \E j \in Tasks : RemoveDelete(j)
    \/ \E j \in Tasks : TaskUnlock(j)
    \/ \E j \in Tasks : TaskReturn(j)
    \/ \E j \in Tasks : TaskWriteEnd(j)
    \/ ExecuteJoin
    \/ \E name \in BatchHooks : ExecuteTest(name)
    \/ \E name \in BatchHooks : ExecuteCall(name)

SpecBatch == InitBatch /\ [][NextBatch]_vars

\* ---- one batch on a lockable store whose batch callbacks are (re)set
\* The store holds one key, left by an earlier Insert("a", "v1"); the
\* callbacks are set, to a function or to nil, at any time: before, during
\* and after Execute.
InitHooks == InitWith(TRUE, MapPut(EmptyMap, "a", "v1"), {Executor}, TRUE, 0)

NextHooks ==
    \/ NextBatch
    \/ \E f \in BOOLEAN : OnBatchInsertHandler(f)
    \/ \E f \in BOOLEAN : OnBatchUpdateHandler(f)
    \/ \E f \in BOOLEAN : OnBatchRemoveHandler(f)

SpecHooks == InitHooks /\ [][NextHooks]_vars

\* ------------------------------- concurrent callers, non-lockable store
InitConc == InitWith(FALSE, EmptyMap, Threads, FALSE, MaxOps)

NextConc ==
    \/ \E t \in Threads, k \in Keys, v \in Vals : CallInsert(t, k, v)
    \/ \E t \in Threads, k \in Keys, v \in Vals : CallInsertUnique(t, k, v)
    \/ \E t \in Threads, k \in Keys : CallRemove(t, k)
    \/ \E t \in Threads : LoadOrStore(t)
    \/ \E t \in Threads : InsertGet(t)
    \/ \E t \in Threads : InsertStore(t)
    \/ \E t \in Threads : InsertInc(t)
    \/ \E t \in Threads : RemoveGet(t)
    \/ \E t \in Threads : RemoveDec(t)
    \/ \E t \in Threads : RemoveDelete(t)
    \/ \E t \in Threads : ThreadReturn(t)

SpecConc == InitConc /\ [][NextConc]_vars

\* ------------- a caller, Flush and one batch together, lockable store
\* The store holds one key, left by an earlier Insert("a", "v1").  The
\* goroutines that contend for the lock are the caller and the job tasks.
InitLocked == InitWith(TRUE, MapPut(EmptyMap, "a", "v1"), {T1, Executor}, TRUE,
                       MaxLockedOps)
Contenders == {T1} \cup Tasks

NextLocked ==
    \/ \E k \in Keys, v \in Vals : CallInsert(T1, k, v)
    \/ \E k \in Keys, v \in Vals : CallInsertUnique(T1, k, v)
    \/ \E k \in Keys : CallRemove(T1, k)
    \/ CallFlush(T1)
    \/ FlushVisit(T1)
    \/ FlushReturn(T1)
    \/ FlushEnd(T1)
    \/ ThreadReturn(T1)
    \/ \E k \in Keys, v \in Vals : BatchInsert(k, v)
    \/ \E k \in Keys, v \in Vals : BatchInsertUnique(k, v)
    \/ \E k \in Keys : BatchRemove(k)
    \/ ExecuteSpawn
    \/ \E p \in Contenders : Lock(p)
    \/ \E p \in Contenders : LoadOrStore(p)
    \/ \E p \in Contenders : InsertGet(p)
    \/ \E p \in Contenders : InsertStore(p)
    \/ \E p \in Contenders : InsertInc(p)
    \/ \E p \in Contenders : RemoveGet(p)
    \/ \E p \in Contenders : RemoveDec(p)
    \/ \E p \in Contenders : RemoveDelete(p)
    \/ \E j \in Tasks : TaskUnlock(j)
    \/ \E j \in Tasks : TaskReturn(j)
    \/ \E j \in Tasks : TaskWriteEnd(j)
    \/ ExecuteJoin
    \/ \E name \in BatchHooks : ExecuteTest(name)
    \/ \E name \in BatchHooks : ExecuteCall(name)

SpecLocked == InitLocked /\ [][NextLocked]_vars

\* ================================================================= claims
AllIdle == \A t \in Threads : pc[t] \in {"idle", "off"}

\* C1: single-threaded, after each Insert, InsertUnique, Remove or Flush
\* returns, Len() is the number of keys present in the mapping; so it is
\* when a call has ended in the panic of a nil callback.
C1_LenIsKeyCount ==
    pc[T1] \in {"idle", "panicked"} => StoreLen = Cardinality(GetKeyMap)

\* A Remove has succeeded as the third call and a key is still stored.
C1_Witness ==
    /\ pc[T1] = "idle"
    /\ ops[T1] = 0
    /\ cur[T1].op = "Remove"
    /\ ret[T1].ok
    /\ GetKeyMap # {}

\* C2 (as claimed): on a non-lockable store, once all concurrent Insert,
\* InsertUnique and Remove calls have returned, Len() is the number of keys.
C2_ConcurrentLenIsKeyCount ==
    (~lockable /\ AllIdle) => StoreLen = Cardinality(GetKeyMap)

\* C3: InsertUnique(k, v2) on a key present with v1 leaves the mapping and
\* the count as they were, returns (v1, true) and fires no callback; and
\* after InsertUnique(k, v1) on an absent k then InsertUnique(k, v2),
\* Get(k) is (v1, true).
C3_InsertUniqueNeverOverwrites ==
    LET c == cur[T1]
        b == prev[T1].call
    IN (pc[T1] = "idle" /\ c.op = "InsertUnique") =>
         /\ c.key \in DOMAIN c.m0 =>
              /\ m = c.m0
              /\ StoreLen = c.count0
              /\ ret[T1] = [val |-> c.m0[c.key], ok |-> TRUE]
              /\ fired[T1] = <<>>
         /\ (b.op = "InsertUnique" /\ b.key = c.key /\ b.key \notin DOMAIN b.m0) =>
              Get(c.key) = [val |-> b.val, ok |-> TRUE]

\* InsertUnique(k, v1) created k, and InsertUnique(k, v2) with another value
\* has returned.
C3_Witness ==
    LET c == cur[T1]
        b == prev[T1].call
    IN /\ pc[T1] = "idle"
       /\ c.op = "InsertUnique"
       /\ b.op = "InsertUnique"
       /\ b.key = c.key
       /\ b.key \notin DOMAIN b.m0
       /\ b.val # c.val
       /\ ret[T1].ok

\* C4: when Flush() returns and nothing else mutates the store, Len() is 0
\* and GetKeyMap() is empty, whatever the store held.
C4_FlushEmpties ==
    (pc[T1] = "idle" /\ cur[T1].op = "Flush") =>
        (StoreLen = 0 /\ GetKeyMap = {})

\* Flush has returned on a store that held every key.
C4_Witness ==
    /\ pc[T1] = "idle"
    /\ cur[T1].op = "Flush"
    /\ DOMAIN cur[T1].m0 = Keys

\* C5: on a lockable store, every goroutine blocked in the condition wait of
\* WaitForDataChange when NotifyDidChange() is called eventually returns,
\* with no further notification and no cancellation needed.
C5_NotifyWakesEveryWaiter ==
    \A w \in Waiters : wh[w].notified ~> (pc[w] = "returned")

\* Both waiters were blocked at one NotifyDidChange and both have returned,
\* neither context having been cancelled.
C5_Witness ==
    \A w \in Waiters :
        wh[w].notified /\ pc[w] = "returned" /\ ~cancelled[w]

\* C6: a WaitForDataChange call that starts after a NotifyDidChange() has
\* completed gets past its condition wait, and returns, only after a later
\* broadcast (NotifyDidChange, Flush or a helper's cancellation broadcast)
\* that found it waiting.
C6_NotificationsNotBuffered ==
    \A w \in Waiters :
        (wh[w].afterNotify /\ pc[w] \in {"send", "wunlock", "returned"})
            => wh[w].heard

\* A call made after a NotifyDidChange is blocked although that notification
\* happened, and another such call has returned.
C6_Witness ==
    /\ \E w \in Waiters : wh[w].afterNotify /\ pc[w] = "blocked"
    /\ \E w \in Waiters : wh[w].afterNotify /\ pc[w] = "returned"

\* C7 (as claimed): a WaitForDataChange call made with an already cancelled
\* context eventually returns under fair scheduling.
C7_PreCancelledWaitReturns ==
    \A w \in Waiters : wh[w].preCancelled ~> (pc[w] = "returned")

\* ------------------------------------------------------------ the batch
JobIds == 1..Len(jobs)
InsertKinds == {"insert", "insertUnique"}
ExecuteReturned == pc[Executor] = "done"
\* The jobs of the batch target pairwise distinct keys.
JobKeysDistinct ==
    \A i, j \in JobIds : i # j => jobs[i].key # jobs[j].key
\* No key is the target of two Insert/InsertUnique jobs of the batch.
InsertKeysDistinct ==
    \A i, j \in JobIds :
        (i # j /\ jobs[i].method \in InsertKinds /\ jobs[j].method \in InsertKinds)
            => jobs[i].key # jobs[j].key
\* The mapping key -> f(job) over the jobs of `ids` (one job per key).
ByKey(ids, f(_)) ==
    [k \in {jobs[i].key : i \in ids} |->
        f(jobs[CHOOSE i \in ids : jobs[i].key = k])]
JobValue(j) == j.value
StoredBefore(j) == bm0[j.key]
ExpectedCreated ==
    ByKey({i \in JobIds : jobs[i].method \in InsertKinds
                          /\ jobs[i].key \notin DOMAIN bm0}, JobValue)
ExpectedUpdated ==
    ByKey({i \in JobIds : jobs[i].method = "insert"
                          /\ jobs[i].key \in DOMAIN bm0}, JobValue)
ExpectedDeleted ==
    ByKey({i \in JobIds : jobs[i].method = "remove"
                          /\ jobs[i].key \in DOMAIN bm0}, StoredBefore)

\* C8 (as claimed): after Execute() of a batch whose jobs target pairwise
\* distinct keys, with no other mutation of the store, created, updated and
\* deleted hold exactly what the jobs did to the store Execute found.
C8_BatchResultSets ==
    (ExecuteReturned /\ JobKeysDistinct) =>
        /\ created = ExpectedCreated
        /\ updated = ExpectedUpdated
        /\ deleted = ExpectedDeleted

Fired(name) == {i \in 1..Len(bfired) : bfired[i].cb = name}
\* Execute leaves the position `at` by the step.
ExecuteLeaves(at) == pc[Executor] = at /\ pc'[Executor] # at

\* C9 (as claimed): in one Execute() each batch callback is invoked at most
\* once, with its result set and only when that set is non-empty, and only
\* after every job task has completed (so a batch with no effective
\* mutation invokes none); and each callback is invoked exactly when its
\* result set is non-empty: Execute decides to invoke a callback exactly
\* when its set is non-empty and its field holds a function (nil has
\* nothing to invoke), and having so decided it invokes the callback, with
\* that set, and goes on.  The callbacks may be registered at any time.
C9_BatchCallbacks ==
    /\ [](/\ \A name \in BatchHooks : Cardinality(Fired(name)) <= 1
          /\ bfired # <<>> => \A i \in JobIds : pc[TaskOf(i)] = "done"
          /\ \A i \in 1..Len(bfired) :
                /\ bfired[i].cb \in BatchHooks
                /\ bfired[i].kv = ResultOf(bfired[i].cb)
                /\ bfired[i].kv # EmptyMap)
    /\ [][\A name \in BatchHooks :
            /\ ExecuteLeaves(TestPc[name]) =>
                  (pc'[Executor] = CallPc[name]
                      <=> (DOMAIN ResultOf(name) # {} /\ hooks[name]))
            /\ ExecuteLeaves(CallPc[name]) =>
                  /\ bfired' = Append(bfired, [cb |-> name,
                                               kv |-> ResultOf(name)])
                  /\ pc'[Executor] = AfterPc[name]]_vars

\* C10 (as claimed): whatever the jobs and their interleaving, no key is in
\* both created and updated when the batch callbacks fire.
C10_CreatedUpdatedDisjoint ==
    ExecuteReturned => (DOMAIN created) \cap (DOMAIN updated) = {}

\* C10 (amended): in a batch where no key is the target of two
\* Insert/InsertUnique jobs, no key is in both created and updated when
\* the batch callbacks fire.
C10_DisjointWhenInsertKeysDistinct ==
    (ExecuteReturned /\ InsertKeysDistinct) =>
        (DOMAIN created) \cap (DOMAIN updated) = {}

\* Two insert jobs on different keys have run: one created its key, the
\* other updated its key.
C10_Witness ==
    /\ ExecuteReturned
    /\ InsertKeysDistinct
    /\ Len(jobs) = 2
    /\ \A i \in JobIds : jobs[i].method \in InsertKinds
    /\ DOMAIN created # {}
    /\ DOMAIN updated # {}

\* ------------------------------------------- Insert and Remove, one caller
\* The goroutine's running or last call is `op` and has not returned: it
\* ended in a panic.
Aborted(t, op) == cur[t].op = op /\ pc[t] \in {"panic", "panicked"}

\* C11 (as claimed): every Insert(k, v) returns; it leaves k mapped to v
\* (and the other keys as they were), returns (v, existedBefore), fires
\* exactly one single-operation callback with (k, v), the update callback
\* when k existed and the insert callback otherwise, and increments the
\* count only when k did not exist.
C11_InsertContract ==
    LET c == cur[T1]
        existed == c.key \in DOMAIN c.m0
    IN /\ ~Aborted(T1, "Insert")
       /\ (pc[T1] = "idle" /\ c.op = "Insert") =>
            /\ m = MapPut(c.m0, c.key, c.val)
            /\ Get(c.key) = [val |-> c.val, ok |-> TRUE]
            /\ ret[T1] = [val |-> c.val, ok |-> existed]
            /\ fired[T1] = <<[cb |-> IF existed THEN "onUpdate" ELSE "onInsert",
                              key |-> c.key, val |-> c.val]>>
            /\ StoreLen = c.count0 + (IF existed THEN 0 ELSE 1)

\* C12 (as claimed): every Remove(k) returns; on a present key it deletes
\* it, decrements the count by one, fires the remove callback once with the
\* value that was stored and returns true;
\* on an absent key it returns false, leaves the mapping and the count
\* unchanged and fires no callback.
C12_RemoveContract ==
    LET c == cur[T1]
    IN /\ ~Aborted(T1, "Remove")
       /\ (pc[T1] = "idle" /\ c.op = "Remove") =>
            IF c.key \in DOMAIN c.m0
            THEN /\ m = MapDel(c.m0, c.key)
                 /\ StoreLen = c.count0 - 1
                 /\ fired[T1] = <<[cb |-> "onRemove", key |-> c.key,
                                   val |-> c.m0[c.key]]>>
                 /\ ret[T1].ok
            ELSE /\ m = c.m0
                 /\ StoreLen = c.count0
                 /\ fired[T1] = <<>>
                 /\ ~ret[T1].ok

\* ------------------------------------------------- the store-wide lock
\* The goroutine is between the Lock() and the deferred Unlock() of
\* insert/remove.
InSection(p) ==
    pc[p] \in {"los", "get", "store", "inc", "rmget", "dec", "del", "ret", "panic"}

\* C13: on a lockable store every insert/remove (of a direct call, of Flush
\* or of a batch task) changes the mapping and the counter and invokes its
\* single-operation callback while its goroutine holds the store lock: at
\* most one goroutine is inside such a section, and the goroutine whose step
\* changes the mapping or the counter or invokes a callback holds the lock
\* before and after that step.
C13_MutationsUnderLock ==
    /\ [](/\ \A p \in Mutators : InSection(p) => lock = p
          /\ Cardinality({p \in Mutators : InSection(p)}) <= 1)
    /\ [][/\ (m' # m \/ count' # count) =>
               (lock \in Mutators /\ lock' = lock /\ pc'[lock] # pc[lock])
           /\ \A p \in Mutators :
                 Len(fired'[p]) > Len(fired[p]) => (lock = p /\ lock' = p)]_vars

\* A Flush's Remove has invoked the remove callback and is still inside its
\* section, while both job tasks of the batch wait for the lock.
C13_Witness ==
    /\ pc[T1] = "ret" /\ fr[T1].from = "flush"
    /\ Len(fired[T1]) = 1
    /\ lock = T1
    /\ \A j \in Tasks : pc[j] = "lock"

\* C14: on a lockable store, whatever the interleaving of concurrent Insert,
\* InsertUnique, Remove, Flush and batch Execute calls, the counter is the
\* number of keys of the mapping in every state in which no goroutine holds
\* the store lock, and the counter is never decremented while it is 0.
C14_LockedLenIsKeyCount ==
    /\ [](lock = NoProc => StoreLen = Cardinality(GetKeyMap))
    /\ [][count' < count => count > 0]_vars

\* Everything has returned: a Flush that removed the only key, and a batch
\* of two jobs whose remove job found nothing to delete and whose insert
\* job created a key that outlived the Flush.
C14_Witness ==
    /\ lock = NoProc
    /\ pc[T1] = "idle"
    /\ cur[T1].op = "Flush"
    /\ fired[T1] # <<>>
    /\ ExecuteReturned
    /\ Len(jobs) = 2
    /\ \E i \in JobIds : jobs[i].method = "remove"
    /\ DOMAIN deleted = {}
    /\ DOMAIN created # {}
    /\ StoreLen = 1

\* ------------------------------------------- cancellation of a waiter
\* C15 (as claimed): on a lockable store, a WaitForDataChange call whose
\* context is cancelled at any point after the call has begun, before or
\* after the caller reaches its condition wait, eventually returns under
\* fair scheduling, with no NotifyDidChange or Flush needed.
C15_CancelDuringWaitReturns ==
    \A w \in Waiters :
        (cancelled[w] /\ ~wh[w].preCancelled /\ pc[w] \notin {"start", "off"})
            ~> (pc[w] = "returned")

\* C16: on a lockable store with several goroutines blocked in the
\* condition wait, the helper of a call whose context was cancelled makes a
\* store-wide broadcast: the helper of a cancelled call that is still
\* blocked gets to its Broadcast (unless another broadcast wakes the caller
\* first), and every waiter on the notify list when the helper, holding the
\* lock, is about to broadcast eventually returns, whether or not its own
\* context was cancelled.
C16_CancelBroadcastWakesAll ==
    \A w \in Waiters :
        /\ (cancelled[w] /\ pc[w] = "blocked" /\ pc[HelperOf(w)] = "select")
               ~> (pc[HelperOf(w)] = "hbcast" \/ w \notin waitq)
        /\ ((\E x \in Waiters : pc[HelperOf(x)] = "hbcast") /\ w \in waitq)
               ~> (pc[w] = "returned")

\* A waiter whose context was never cancelled has returned although no
\* NotifyDidChange or Flush was ever called: the broadcast that woke it was
\* the one made for the other waiter's cancellation.
C16_Witness ==
    \E w \in Waiters :
        /\ pc[w] = "returned"
        /\ wh[w].heard
        /\ ~cancelled[w]
        /\ ops[T1] = MaxNotifierOps
        /\ pc[T1] = "idle"
        /\ \E x \in Waiters \ {w} : cancelled[x] /\ pc[x] = "returned"

\* C17: the helper of every WaitForDataChange call that returns eventually
\* terminates, also when the context is never cancelled, and the caller's
\* send on the one-slot channel never has to wait: the slot is free whenever
\* the caller, holding the store lock, is about to send.
C17_HelperTerminates ==
    /\ \A w \in Waiters : (pc[w] = "returned") ~> (pc[HelperOf(w)] = "hdone")
    /\ [](\A w \in Waiters : pc[w] = "send" => chan[w] < WaitChanCap)

\* A call has returned and its helper has ended by receiving from the
\* channel, the context never having been cancelled.
C17_Witness ==
    \E w \in Waiters :
        /\ pc[w] = "returned"
        /\ pc[HelperOf(w)] = "hdone"
        /\ ~cancelled[w]
        /\ chan[w] = 0

\* ---------------------------------------------------------------- Flush
\* The remove callback invocations a Flush of the mapping mm has to make.
RemovalsOf(mm) == {[cb |-> "onRemove", key |-> k, val |-> mm[k]] : k \in DOMAIN mm}
FiredSet(t) == {fired[t][i] : i \in 1..Len(fired[t])}

\* C18 (as claimed): Flush() on a store of n keys that nothing else mutates
\* runs to its end; it invokes the remove callback exactly n times, once per
\* key with the value stored at that key; on a lockable store it broadcasts
\* exactly once, at its end, when every key has been removed, and that
\* broadcast takes every waiter blocked in the condition wait off the notify
\* list; no earlier step of the Flush wakes a waiter.
C18_FlushCallbacksAndBroadcast ==
    /\ [](~Aborted(T1, "Flush"))
    /\ []((pc[T1] = "idle" /\ cur[T1].op = "Flush") =>
            /\ Len(fired[T1]) = Cardinality(DOMAIN cur[T1].m0)
            /\ FiredSet(T1) = RemovalsOf(cur[T1].m0))
    /\ [][(cur[T1].op = "Flush" /\ pc[T1] # "idle" /\ pc'[T1] # pc[T1]) =>
             IF pc'[T1] = "idle"
             THEN /\ m = EmptyMap
                  /\ FiredSet(T1) = RemovalsOf(cur[T1].m0)
                  /\ lockable =>
                        /\ waitq' = {}
                        /\ \A w \in waitq : pc'[w] = "relock" /\ wh'[w].heard
             ELSE /\ waitq' = waitq
                  /\ \A w \in Waiters : pc'[w] = pc[w]]_vars

\* ------------------------------------------------- the batch, continued
\* C19: no job of a batch invokes a single-operation callback (insert,
\* update or remove), whatever its kind and whether or not its key existed:
\* the callback log of every job task stays empty throughout Execute().
C19_NoSingleCallbacksInBatch ==
    \A j \in Tasks : fired[j] = <<>>

\* Execute has returned after a creation and a deletion, each of which would
\* have invoked a callback as a single call; only batch callbacks fired.
C19_Witness ==
    /\ ExecuteReturned
    /\ DOMAIN created # {}
    /\ DOMAIN deleted # {}
    /\ Len(bfired) = 2
    /\ \A j \in Tasks : fired[j] = <<>>

\* C20 (as claimed): during Execute() no two job tasks are at the same time
\* in the middle of writing one of the batch's result maps.
C20_ResultWritesExclusive ==
    \A i \in Tasks, j \in Tasks :
        i # j => writing[i] \cap writing[j] = {}

====
